---- MODULE Spec2Model ----
(***************************************************************************)
(* Model of gdrive_download.py: parse -> authenticate -> list -> change    *)
(* working directory -> download -> report.  Every library / filesystem    *)
(* call either returns or raises; a raise ends the run.                    *)
(***************************************************************************)
EXTENDS Integers, Sequences, FiniteSets, TLC

\* ---------------------------------------------------------------- bounds
MaxLen == 3

\* ------------------------------------------------------------ input sets
FolderMime == "application/vnd.google-apps.folder"
PlainMime == "text/plain"
Titles == {"a", "b"}
MimeTypes == {FolderMime, PlainMime}
StartDir == "cwd0"
DirNames == {"cwd0", "d1"}

\* an optional string argument: argparse yields None when it is omitted
OptStr(vals) == {[given |-> FALSE, val |-> ""]} \cup {[given |-> TRUE, val |-> v] : v \in vals}

\* a remote entry: file['title'], file['mimeType']; its content is named by its position
Entry == [title : Titles, mimeType : MimeTypes]
Listings == UNION {[1..n -> Entry] : n \in 0..MaxLen}

\* argparse result (lines 31-40)
parse_args == [file : OptStr({"", "a", "b"}), destination : OptStr({""} \cup DirNames), fail_if_nothing_was_downloaded : BOOLEAN]

\* Python truthiness of an optional string: None and "" are falsy
Truthy(opt) == opt.given /\ opt.val # ""

\* the filter of download (line 69)
SelectedNoFolderCheck(file, file_name) == ~Truthy(file_name) \/ file.title = file_name.val
SelectedNameRequired(file, file_name) == file.title = file_name.val /\ file.mimeType # FolderMime
SelectedNoNameCheck(file, file_name) == file.mimeType # FolderMime
SelectedOrSlip(file, file_name) == (~Truthy(file_name) \/ file.title = file_name.val) \/ file.mimeType # FolderMime
Selected(file, file_name) == (~Truthy(file_name) \/ file.title = file_name.val) /\ file.mimeType # FolderMime

\* the test of line 98
NothingCheckIgnoresFlag(counter, flag) == counter = 0
NothingWasDownloaded(counter, flag) == counter = 0 /\ flag

\* line 72
CounterNotIncremented(c) == c
IncrementCounter(c) == c + 1

\* line 90
DestinationIgnored(a) == FALSE
DestinationGiven(a) == Truthy(a.destination)

\* file.GetContentFile(title): opens title relative to the working directory for writing
WriteKeepsExisting(fs, dir, title, content) == [p \in DOMAIN fs \cup {<<dir, title>>} |-> IF p \in DOMAIN fs THEN fs[p] ELSE content]
GetContentFile(fs, dir, title, content) == [p \in DOMAIN fs \cup {<<dir, title>>} |-> IF p = <<dir, title>> THEN content ELSE fs[p]]

\* os.chdir(path) (line 93): the new working directory
ChdirForgotten(old, path) == old
chdir(old, path) == path

\* an uncaught exception unwinds main: nothing after the raising call runs
RaiseSwallowedInLoop(at) == IF at = "fetch" THEN "loop" ELSE "done"
Propagate(at) == "done"

\* pc                 position in main / download (lines 77-99)
\* args               result of parse_args (line 80)
\* dirs               directories that exist (os.path.isdir, os.mkdir: lines 91-92)
\* cwd                the process's working directory (os.chdir: line 93)
\* files              local files: path <<directory, title>> -> content, named by the entry's position (line 71)
\* file_list          the listing returned by get_file_list (line 87)
\* idx                position of the for loop of download (line 67)
\* dl_cwd             os.getcwd() taken on entry of download (line 66)
\* downloads_counter  line 65
\* raisedAt           the call whose exception left main, "none" while none has
\* trace              what the run did and printed, in order
VARIABLES pc, args, dirs, cwd, files, file_list, idx, dl_cwd, downloads_counter, raisedAt, trace

vars == <<pc, args, dirs, cwd, files, file_list, idx, dl_cwd, downloads_counter, raisedAt, trace>>

Ev(e, n) == [ev |-> e, n |-> n]

Init ==
    /\ pc = "auth"
    /\ args \in parse_args
    /\ dirs \in {{StartDir}, DirNames}
    /\ cwd = StartDir
    /\ files = [p \in {} |-> 0]
    /\ file_list = <<>>
    /\ idx = 0
    /\ dl_cwd = ""
    /\ downloads_counter = 0
    /\ raisedAt = "none"
    /\ trace = <<>>

\* a call raises: the exception leaves main
Raise(at) ==
    /\ pc' = Propagate(at)
    /\ raisedAt' = (IF Propagate(at) = "done" THEN at ELSE raisedAt)
    /\ trace' = Append(trace, Ev("raise", 0))

\* line 83
auth_with_service_account_key ==
    /\ pc = "auth"
    /\ pc' = "list"
    /\ trace' = Append(trace, Ev("auth", 0))
    /\ UNCHANGED <<args, dirs, cwd, files, file_list, idx, dl_cwd, downloads_counter, raisedAt>>

AuthRaises ==
    /\ pc = "auth"
    /\ Raise("auth")
    /\ UNCHANGED <<args, dirs, cwd, files, file_list, idx, dl_cwd, downloads_counter>>

\* lines 86-87
get_file_list ==
    /\ pc = "list"
    /\ \E l \in Listings : file_list' = l
    /\ pc' = "dest"
    /\ trace' = Append(trace, Ev("list", 0))
    /\ UNCHANGED <<args, dirs, cwd, files, idx, dl_cwd, downloads_counter, raisedAt>>

ListRaises ==
    /\ pc = "list"
    /\ Raise("list")
    /\ UNCHANGED <<args, dirs, cwd, files, file_list, idx, dl_cwd, downloads_counter>>

\* line 90 false: no directory change
NoDestination ==
    /\ pc = "dest"
    /\ ~DestinationGiven(args)
    /\ pc' = "download"
    /\ UNCHANGED <<args, dirs, cwd, files, file_list, idx, dl_cwd, downloads_counter, raisedAt, trace>>

\* lines 91-92: the directory is absent and is created
Mkdir ==
    /\ pc = "dest"
    /\ DestinationGiven(args)
    /\ args.destination.val \notin dirs
    /\ dirs' = dirs \cup {args.destination.val}
    /\ pc' = "chdir"
    /\ trace' = Append(trace, Ev("mkdir", 0))
    /\ UNCHANGED <<args, cwd, files, file_list, idx, dl_cwd, downloads_counter, raisedAt>>

MkdirRaises ==
    /\ pc = "dest"
    /\ DestinationGiven(args)
    /\ args.destination.val \notin dirs
    /\ Raise("mkdir")
    /\ UNCHANGED <<args, dirs, cwd, files, file_list, idx, dl_cwd, downloads_counter>>

\* line 91 false: the directory exists
DirExists ==
    /\ pc = "dest"
    /\ DestinationGiven(args)
    /\ args.destination.val \in dirs
    /\ pc' = "chdir"
    /\ UNCHANGED <<args, dirs, cwd, files, file_list, idx, dl_cwd, downloads_counter, raisedAt, trace>>

\* line 93
Chdir ==
    /\ pc = "chdir"
    /\ cwd' = chdir(cwd, args.destination.val)
    /\ pc' = "download"
    /\ trace' = Append(trace, Ev("chdir", 0))
    /\ UNCHANGED <<args, dirs, files, file_list, idx, dl_cwd, downloads_counter, raisedAt>>

ChdirRaises ==
    /\ pc = "chdir"
    /\ Raise("chdir")
    /\ UNCHANGED <<args, dirs, cwd, files, file_list, idx, dl_cwd, downloads_counter>>

\* lines 65-66: entry of download
DownloadEnter ==
    /\ pc = "download"
    /\ downloads_counter' = 0
    /\ dl_cwd' = cwd
    /\ idx' = 1
    /\ pc' = "loop"
    /\ UNCHANGED <<args, dirs, cwd, files, file_list, raisedAt, trace>>

\* line 69 false: the entry is skipped
LoopSkip ==
    /\ pc = "loop"
    /\ idx <= Len(file_list)
    /\ ~Selected(file_list[idx], args.file)
    /\ idx' = idx + 1
    /\ UNCHANGED <<pc, args, dirs, cwd, files, file_list, dl_cwd, downloads_counter, raisedAt, trace>>

\* line 70: the progress line
LoopPrint ==
    /\ pc = "loop"
    /\ idx <= Len(file_list)
    /\ Selected(file_list[idx], args.file)
    /\ trace' = Append(trace, Ev("progress", idx))
    /\ pc' = "fetch"
    /\ UNCHANGED <<args, dirs, cwd, files, file_list, idx, dl_cwd, downloads_counter, raisedAt>>

\* lines 71-72
Fetch ==
    /\ pc = "fetch"
    /\ files' = GetContentFile(files, cwd, file_list[idx].title, idx)
    /\ downloads_counter' = IncrementCounter(downloads_counter)
    /\ trace' = Append(trace, Ev("fetch", idx))
    /\ idx' = idx + 1
    /\ pc' = "loop"
    /\ UNCHANGED <<args, dirs, cwd, file_list, dl_cwd, raisedAt>>

FetchRaises ==
    /\ pc = "fetch"
    /\ Raise("fetch")
    /\ idx' = (IF Propagate("fetch") = "done" THEN idx ELSE idx + 1)
    /\ UNCHANGED <<args, dirs, cwd, files, file_list, dl_cwd, downloads_counter>>

\* line 74 and line 97: download returns, the count line is printed
Report ==
    /\ pc = "loop"
    /\ idx > Len(file_list)
    /\ trace' = Append(trace, Ev("count", downloads_counter))
    /\ pc' = "check"
    /\ UNCHANGED <<args, dirs, cwd, files, file_list, idx, dl_cwd, downloads_counter, raisedAt>>

\* lines 98-99
RaiseNothing ==
    /\ pc = "check"
    /\ NothingWasDownloaded(downloads_counter, args.fail_if_nothing_was_downloaded)
    /\ pc' = "done"
    /\ raisedAt' = "nothing"
    /\ trace' = Append(trace, Ev("nothing", 0))
    /\ UNCHANGED <<args, dirs, cwd, files, file_list, idx, dl_cwd, downloads_counter>>

ExitNormally ==
    /\ pc = "check"
    /\ ~NothingWasDownloaded(downloads_counter, args.fail_if_nothing_was_downloaded)
    /\ pc' = "done"
    /\ UNCHANGED <<args, dirs, cwd, files, file_list, idx, dl_cwd, downloads_counter, raisedAt, trace>>

Next ==
    \/ auth_with_service_account_key
    \/ AuthRaises
    \/ get_file_list
    \/ ListRaises
    \/ NoDestination
    \/ Mkdir
    \/ MkdirRaises
    \/ DirExists
    \/ Chdir
    \/ ChdirRaises
    \/ DownloadEnter
    \/ LoopSkip
    \/ LoopPrint
    \/ Fetch
    \/ FetchRaises
    \/ Report
    \/ RaiseNothing
    \/ ExitNormally

Spec == Init /\ [][Next]_vars
\* ------------------------------------------------------------ observations
EventsOf(e) == {k \in 1..Len(trace) : trace[k].ev = e}
Count(e) == Cardinality(EventsOf(e))
IsFetch(x) == x.ev = "fetch"
\* the entries whose content was fetched, in the order of the fetches
Downloaded == [k \in 1..Len(SelectSeq(trace, IsFetch)) |-> SelectSeq(trace, IsFetch)[k].n]
DownloadedSet == {trace[k].n : k \in EventsOf("fetch")}
Reported == Count("count") >= 1
ReportedCount == trace[CHOOSE k \in EventsOf("count") : TRUE].n
LibraryErrors == {"auth", "list", "mkdir", "chdir", "fetch"}
NoRaise == raisedAt \notin LibraryErrors
Finished == pc = "done" /\ NoRaise
NonFolders == {i \in 1..Len(file_list) : file_list[i].mimeType # FolderMime}
Folders == {i \in 1..Len(file_list) : file_list[i].mimeType = FolderMime}
WithTitle(t) == {i \in 1..Len(file_list) : file_list[i].title = t}
StrictlyIncreasing(s) == \A j, k \in 1..Len(s) : j < k => s[j] < s[k]
SetMax(S) == CHOOSE m \in S : \A x \in S : x <= m
Written == DOMAIN files

\* ------------------------------------------------------------------ C1
\* C1: in a run in which no library or filesystem call raises, the run ends
\* with the 'Nothing was downloaded' error exactly when the reported count is
\* 0 and the fail flag is set; otherwise it ends normally.
C1_NothingErrorIff ==
    Finished =>
        /\ Reported
        /\ (raisedAt = "nothing") <=> (ReportedCount = 0 /\ args.fail_if_nothing_was_downloaded)
        /\ (raisedAt = "none") <=> (ReportedCount >= 1 \/ ~args.fail_if_nothing_was_downloaded)
        /\ ReportedCount = Count("fetch")

C1_Witness == Finished /\ raisedAt = "nothing" /\ Len(file_list) >= 2

\* ------------------------------------------------------------------ C2
\* C2: without --file, a run that reports its count has fetched exactly the
\* N non-folder entries of the listing, each once, and reports N.
C2_AllNonFolders ==
    (~args.file.given /\ Reported) =>
        /\ DownloadedSet = NonFolders
        /\ Len(Downloaded) = Cardinality(NonFolders)
        /\ ReportedCount = Cardinality(NonFolders)

C2_Witness ==
    /\ ~args.file.given
    /\ Reported
    /\ Cardinality(NonFolders) >= 2
    /\ Cardinality(Folders) >= 1

\* ------------------------------------------------------------------ C3
\* C3 as stated: for every --file value X, one matching non-folder entry
\* gives exactly that download and count 1, no matching entry gives count 0.
C3_Original ==
    (args.file.given /\ Reported) =>
        /\ \A i \in NonFolders :
              (WithTitle(args.file.val) \cap NonFolders = {i}) => (Downloaded = <<i>> /\ ReportedCount = 1)
        /\ (WithTitle(args.file.val) = {}) => (Downloaded = <<>> /\ ReportedCount = 0)

\* C3 amended: the same for every non-empty --file value X.
C3_NonEmptyName ==
    (args.file.given /\ args.file.val # "" /\ Reported) =>
        /\ \A i \in NonFolders :
              (WithTitle(args.file.val) \cap NonFolders = {i}) => (Downloaded = <<i>> /\ ReportedCount = 1)
        /\ (WithTitle(args.file.val) = {}) => (Downloaded = <<>> /\ ReportedCount = 0)

C3_Witness ==
    /\ args.file.given
    /\ args.file.val # ""
    /\ Reported
    /\ Cardinality(WithTitle(args.file.val) \cap NonFolders) = 1
    /\ Cardinality(NonFolders) >= 2
    /\ ReportedCount = 1

\* ------------------------------------------------------------------ C4
\* C4: no folder entry ever gets a progress line, a fetch or a unit of the
\* counter, whatever --file is.
C4_NoFolderDownloaded ==
    /\ \A k \in 1..Len(trace) :
          trace[k].ev \in {"progress", "fetch"} => file_list[trace[k].n].mimeType # FolderMime
    /\ downloads_counter = Count("fetch")
    /\ downloads_counter <= Cardinality(NonFolders)
    /\ Reported => ReportedCount <= Cardinality(NonFolders)

C4_Witness ==
    /\ Reported
    /\ args.file.given
    /\ \E i \in Folders : file_list[i].title = args.file.val
    /\ ReportedCount >= 1

\* ------------------------------------------------------------------ C5
DestinationWasAbsent ==
    /\ Truthy(args.destination)
    /\ (args.destination.val \notin dirs \/ Count("mkdir") >= 1)

\* C5: when --destination names a directory that does not exist, then by the
\* time the first download starts the directory exists and is the working
\* directory, and every file written by the run lies in it.
C5_DestinationCreatedFirst ==
    (DestinationWasAbsent /\ Count("progress") >= 1) =>
        /\ args.destination.val \in dirs
        /\ cwd = args.destination.val
        /\ dl_cwd = args.destination.val
        /\ \A m \in EventsOf("mkdir"), c \in EventsOf("chdir"), g \in EventsOf("progress") : m < c /\ c < g
        /\ Count("mkdir") = 1 /\ Count("chdir") = 1
        /\ \A p \in Written : p[1] = args.destination.val

C5_Witness ==
    /\ DestinationWasAbsent
    /\ Count("fetch") >= 2
    /\ args.destination.val # StartDir

\* ------------------------------------------------------------------ C6
\* C6 as stated: whenever --file is supplied, with any value, every
\* downloaded entry has exactly that title.
C6_Original ==
    args.file.given =>
        \A k \in 1..Len(trace) :
            trace[k].ev \in {"progress", "fetch"} => file_list[trace[k].n].title = args.file.val

\* C6 amended: whenever --file is supplied with a non-empty value, every
\* downloaded entry has exactly that title; an entry with another title is
\* downloaded only when --file is omitted or empty.
C6_NonEmptyName ==
    /\ (args.file.given /\ args.file.val # "") =>
          \A k \in 1..Len(trace) :
              trace[k].ev \in {"progress", "fetch"} => file_list[trace[k].n].title = args.file.val
    /\ (\E i \in DownloadedSet : file_list[i].title # args.file.val) =>
          (~args.file.given \/ args.file.val = "")

C6_Witness ==
    /\ args.file.given
    /\ args.file.val # ""
    /\ Reported
    /\ ReportedCount >= 1
    /\ \E i \in NonFolders : file_list[i].title # args.file.val

\* ------------------------------------------------------------------ C7
\* C7: when no library call raises, each fetch is immediately preceded by the
\* progress line of the same entry, each progress line is followed by its
\* fetch, the count line is printed once, after every download and before the
\* 'Nothing was downloaded' failure, and it reports the number of progress
\* lines.
C7_OutputOrder ==
    NoRaise =>
        /\ \A k \in EventsOf("fetch") : k > 1 /\ trace[k - 1] = Ev("progress", trace[k].n)
        /\ \A k \in EventsOf("progress") : k < Len(trace) => trace[k + 1] = Ev("fetch", trace[k].n)
        /\ Count("count") <= 1
        /\ (pc \in {"check", "done"}) => Count("count") = 1
        /\ \A c \in EventsOf("count") :
              /\ \A k \in EventsOf("progress") \cup EventsOf("fetch") : k < c
              /\ \A k \in EventsOf("nothing") : c < k
              /\ trace[c].n = Count("progress")
        /\ EventsOf("nothing") # {} => Reported

C7_Witness == Finished /\ Count("progress") >= 2 /\ Reported

\* ------------------------------------------------------------------ C8
\* C8: a raise of authentication, listing, directory creation, chdir or a
\* download ends the run at that step: it is the last thing that happens and
\* happens once.  After a raise of authentication or listing the destination
\* is not created and the working directory is unchanged; after a raise of a
\* download no later entry is touched, no count line is printed and the
\* 'Nothing was downloaded' error is not raised.
C8_ErrorsPropagate ==
    /\ \A k \in EventsOf("raise") : k = Len(trace) /\ pc = "done" /\ raisedAt \in LibraryErrors
    /\ raisedAt \in LibraryErrors => (pc = "done" /\ Count("raise") = 1)
    /\ raisedAt \in {"auth", "list"} =>
          /\ Count("mkdir") = 0 /\ Count("chdir") = 0 /\ Count("progress") = 0
          /\ cwd = StartDir
    /\ raisedAt = "auth" => trace = <<Ev("raise", 0)>>
    /\ raisedAt = "list" => trace = <<Ev("auth", 0), Ev("raise", 0)>>
    /\ raisedAt \in {"mkdir", "chdir"} => (cwd = StartDir /\ Count("progress") = 0 /\ Written = {})
    /\ raisedAt = "mkdir" => args.destination.val \notin dirs
    /\ raisedAt = "fetch" =>
          /\ \A k \in 1..Len(trace) : trace[k].ev \in {"progress", "fetch"} => trace[k].n <= idx
          /\ idx \notin DownloadedSet
          /\ \A p \in Written : files[p] < idx
          /\ Count("count") = 0
          /\ Count("nothing") = 0

C8_Witness ==
    /\ raisedAt = "fetch"
    /\ downloads_counter = 0
    /\ args.fail_if_nothing_was_downloaded
    /\ \E j \in NonFolders : j > idx /\ ~args.file.given

\* ------------------------------------------------------------------ C9
PastDestination == pc \in {"download", "loop", "fetch", "check"} \/ (pc = "done" /\ raisedAt \in {"fetch", "none", "nothing"})

\* C9 as stated: every run that gets to its downloads has changed the
\* working directory once.
C9_Original == PastDestination => Count("chdir") = 1

\* C9 amended: the working directory is changed once when a non-empty
\* --destination is given and never otherwise; the change precedes the first
\* download, and the working directory is the same during every download and
\* when the count is reported.
C9_ChangedAtMostOnce ==
    /\ Count("chdir") <= 1
    /\ PastDestination => Count("chdir") = (IF Truthy(args.destination) THEN 1 ELSE 0)
    /\ \A c \in EventsOf("chdir"), k \in 1..Len(trace) : trace[k].ev \in {"progress", "fetch", "count"} => c < k
    /\ cwd = (IF Count("chdir") = 1 THEN args.destination.val ELSE StartDir)
    /\ (Count("progress") >= 1 \/ Reported) => cwd = dl_cwd
    /\ \A p \in Written : p[1] = cwd

C9_Witness == Truthy(args.destination) /\ Count("fetch") >= 2 /\ Reported /\ cwd # StartDir

\* ------------------------------------------------------------------ C10
PassedFilter == {i \in 1..Len(file_list) : Selected(file_list[i], args.file)}

\* C10: the reported count is the number of entries that passed the filter;
\* entries passing the filter are fetched in listing order, entries with the
\* same title go to the same local path, and that path ends up holding the
\* content of the last of them.
C10_CountsEntriesNotFiles ==
    Reported =>
        /\ ReportedCount = Cardinality(PassedFilter)
        /\ DownloadedSet = PassedFilter
        /\ StrictlyIncreasing(Downloaded)
        /\ \A t \in Titles :
              (WithTitle(t) \cap PassedFilter # {}) =>
                  files[<<cwd, t>>] = SetMax(WithTitle(t) \cap PassedFilter)
        /\ Cardinality(Written) <= ReportedCount

C10_Witness ==
    /\ Reported
    /\ \E t \in Titles : Cardinality(WithTitle(t) \cap PassedFilter) >= 2
    /\ Cardinality(Written) < ReportedCount
====
